---- MODULE Spec2Model ----
(***************************************************************************)
(* The scheduled batch-notification engine of the marketplace backend:     *)
(* NotificationSchedulerService (the four scan routines and their hourly   *)
(* trigger), the NotificationService operations they call, and the         *)
(* SubscriptionService operations that write the rows the scans read.      *)
(*                                                                         *)
(* Time is counted in whole hours.  Every awaited store call of the source *)
(* is one step of the model; the synchronous code between two awaits       *)
(* belongs to the step of the await before it.                             *)
(***************************************************************************)
EXTENDS Integers, Sequences, FiniteSets, TLC

\* ---------------------------------------------------------------- constants
BATCH_SIZE == 50
NOTIFICATION_BATCH_SIZE == 100
PROMOTION_ENDING_SOON_HOURS == 24
SUBSCRIPTION_ENDING_SOON_HOURS == 48
\* the literal look-back of the two "ending soon" dedup reads, and the
\* one-hour look-back (oneHourAgo) of the "ended" / "expired" routines
PromotionDedupHours == 24
SubscriptionDedupHours == 48
OneHour == 1

\* ------------------------------------------------------------------- bounds
MaxInvocations == 2
MaxClock == 2
MaxSubscriptions == 3
MaxFaults == 1
MaxRows == 120
MaxBulk == 3
MaxEarlier == 2
ProbeHour == 100
NumUsers == 2
NumSessions == 2

Users == 1..NumUsers
Sessions == 1..NumSessions
Invocations == 1..MaxInvocations

\* ------------------------------------------------------------------- values
PES == "checkPromotionsEndingSoon"
PE == "checkPromotionsEnded"
SES == "checkSubscriptionsEndingSoon"
SX == "checkSubscriptionsExpired"
Routines == {PES, PE, SES, SX}
PromotionRoutines == {PES, PE}
SubscriptionRoutines == {SES, SX}

PROMOTION_ENDING_SOON == "PROMOTION_ENDING_SOON"
PROMOTION_ENDED == "PROMOTION_ENDED"
SUBSCRIPTION_ENDING_SOON == "SUBSCRIPTION_ENDING_SOON"
SUBSCRIPTION_EXPIRED == "SUBSCRIPTION_EXPIRED"
SUBSCRIPTION_AVAILABLE == "SUBSCRIPTION_AVAILABLE"

ACTIVE == "ACTIVE"
CANCELLED == "CANCELLED"
EXPIRED == "EXPIRED"
PENDING == "PENDING"

\* a nullable DateTime: <<>> is null, <<h>> is the hour h
NoDate == <<>>
At(h) == <<h>>

Min(a, b) == IF a < b THEN a ELSE b

VARIABLES
  clock,              \* the wall clock, in hours
  promotions,         \* table Promotion: row id = index
  userSubscriptions,  \* table UserSubscription: row id = index
  notifications,      \* table Notification: row id = index
  invocations,        \* handleScheduledNotifications calls: idle / running / done
  tasks,              \* the local state of each scan routine of each invocation
  sessions,           \* user requests in flight (joinSubscription, cancelRetailerSubscription)
  faults,             \* number of store failures injected so far
  bulk                \* the last createNotificationsForUsers call and the bulk inserts issued

vars == <<clock, promotions, userSubscriptions, notifications, invocations,
          tasks, sessions, faults, bulk>>

\* ------------------------------------------------------- the routines' data
\* the notification type each routine writes
TypeOf(r) ==
  CASE r = PES -> PROMOTION_ENDING_SOON
    [] r = PE -> PROMOTION_ENDED
    [] r = SES -> SUBSCRIPTION_ENDING_SOON
    [] r = SX -> SUBSCRIPTION_EXPIRED

\* a faulty variant, for comparison: one look-back of 24 hours for every routine
DedupHoursAllDay(r) == PromotionDedupHours

\* createdAt >= now - window, per routine
DedupHours(r) ==
  CASE r = PES -> PromotionDedupHours
    [] r = PE -> OneHour
    [] r = SES -> SubscriptionDedupHours
    [] r = SX -> OneHour

\* a faulty variant, for comparison: the threshold itself is left out (lt)
EndingSoonExclusive(endsAt, now, hours) ==
  /\ endsAt # NoDate
  /\ now <= endsAt[1]
  /\ endsAt[1] < now + hours

\* endsAt: { gte: now, lte: endingSoonThreshold }
EndingSoon(endsAt, now, hours) ==
  /\ endsAt # NoDate
  /\ now <= endsAt[1]
  /\ endsAt[1] <= now + hours

\* a faulty variant, for comparison: no lower bound (everything that has ended)
JustEndedAnyTime(endsAt, now) ==
  /\ endsAt # NoDate
  /\ endsAt[1] < now

\* endsAt: { gte: oneHourAgo, lt: now }
JustEnded(endsAt, now) ==
  /\ endsAt # NoDate
  /\ now - OneHour <= endsAt[1]
  /\ endsAt[1] < now

\* a faulty variant, for comparison: the where clause without the active /
\* status condition
WhereWindowOnly(r, id, now, proms, subs) ==
  CASE r = PES -> EndingSoon(proms[id].endsAt, now, PROMOTION_ENDING_SOON_HOURS)
    [] r = PE -> JustEnded(proms[id].endsAt, now)
    [] r = SES -> EndingSoon(subs[id].endsAt, now, SUBSCRIPTION_ENDING_SOON_HOURS)
    [] r = SX -> JustEnded(subs[id].endsAt, now)

\* the where clause of each routine's findMany, on row id of its table
Where(r, id, now, proms, subs) ==
  CASE r = PES -> /\ proms[id].active
                  /\ EndingSoon(proms[id].endsAt, now, PROMOTION_ENDING_SOON_HOURS)
    [] r = PE -> /\ proms[id].active
                 /\ JustEnded(proms[id].endsAt, now)
    [] r = SES -> /\ subs[id].status = ACTIVE
                  /\ EndingSoon(subs[id].endsAt, now, SUBSCRIPTION_ENDING_SOON_HOURS)
    [] r = SX -> /\ subs[id].status = ACTIVE
                 /\ JustEnded(subs[id].endsAt, now)

TableLen(r, proms, subs) == IF r \in PromotionRoutines THEN Len(proms) ELSE Len(subs)

\* the selected fields of a row
Select(r, id, proms, subs) ==
  IF r \in PromotionRoutines
    THEN [id |-> id, ownerId |-> proms[id].ownerId]
    ELSE [id |-> id, userId |-> subs[id].userId]

\* a faulty variant, for comparison: the cursor row is not skipped
FindManyNoSkip(r, now, cursor, proms, subs) ==
  LET n == TableLen(r, proms, subs)
      ids == [k \in 1..n |-> k]
      Test(k) == Where(r, k, now, proms, subs) /\ (cursor = 0 \/ k >= cursor)
      matching == SelectSeq(ids, Test)
  IN  [k \in 1..Min(Len(matching), BATCH_SIZE) |-> Select(r, matching[k], proms, subs)]

\* findMany({ where, take: BATCH_SIZE, skip: 1, cursor: { id: cursor }, orderBy: { id: 'asc' } })
\* The store answers the rows that satisfy the where clause with id >= cursor,
\* in ascending id order, drops the first `skip` of them and returns at most
\* `take`.  cursor = 0 stands for undefined: no cursor and no skip.
FindMany(r, now, cursor, proms, subs) ==
  LET n == TableLen(r, proms, subs)
      ids == [k \in 1..n |-> k]
      Test(k) == Where(r, k, now, proms, subs) /\ (cursor = 0 \/ k >= cursor)
      matching == SelectSeq(ids, Test)
      skip == IF cursor = 0 THEN 0 ELSE 1
      last == Min(Len(matching), skip + BATCH_SIZE)
  IN  [k \in 1..(IF last > skip THEN last - skip ELSE 0) |->
         Select(r, matching[skip + k], proms, subs)]

\* the subject key the dedup read of routine r uses for a page row
SubjectKey(r, row) == IF r \in PromotionRoutines THEN row.id ELSE row.userId

\* a faulty variant, for comparison: no dedup read
ExistingNotificationNever(r, row, now, notifs) == FALSE

\* notification.findFirst({ where: { promotionId | userId, type, createdAt: { gte: now - window } } })
ExistingNotification(r, row, now, notifs) ==
  \E k \in 1..Len(notifs) :
     /\ IF r \in PromotionRoutines
          THEN notifs[k].promotionId = row.id
          ELSE notifs[k].userId = row.userId
     /\ notifs[k].type = TypeOf(r)
     /\ notifs[k].createdAt >= now - DedupHours(r)

\* a Notification row; promotionId 0 is null, `by` records the writer
Notification(userId, type, promotionId, createdAt, by) ==
  [userId |-> userId, type |-> type, promotionId |-> promotionId,
   createdAt |-> createdAt, by |-> by]


\* ------------------------------------------------ NotificationService calls
\* createNotification: one row, createdAt set by the store at insert time
CreateNotification(notifs, userId, type, promotionId, at, by) ==
  Append(notifs, Notification(userId, type, promotionId, at, by))

\* a faulty variant, for comparison: the insert is skipped when the table
\* already holds a PROMOTION_ENDING_SOON notification of the promotion
NotifyPromotionEndingSoonIfAbsent(notifs, promotionId, proms, at, by) ==
  IF \E k \in 1..Len(notifs) :
        notifs[k].promotionId = promotionId /\ notifs[k].type = PROMOTION_ENDING_SOON
    THEN notifs
    ELSE Append(notifs, Notification(proms[promotionId].ownerId,
                                     PROMOTION_ENDING_SOON, promotionId, at, by))

\* notifyPromotionEndingSoon(promotionId): reads the promotion and its store
\* again and returns without writing when the promotion has no endsAt or the
\* store does not resolve
NotifyPromotionEndingSoon(notifs, promotionId, proms, at, by) ==
  IF promotionId > Len(proms) \/ proms[promotionId].endsAt = NoDate
    THEN notifs
    ELSE IF proms[promotionId].ownerId = 0
      THEN notifs
      ELSE CreateNotification(notifs, proms[promotionId].ownerId,
                              PROMOTION_ENDING_SOON, promotionId, at, by)

\* a faulty variant, for comparison: returns without writing
NotifyPromotionEndedSilent(notifs, promotionId, proms, at, by) == notifs

\* notifyPromotionEnded(promotionId): the same without the endsAt test
NotifyPromotionEnded(notifs, promotionId, proms, at, by) ==
  IF promotionId > Len(proms)
    THEN notifs
    ELSE IF proms[promotionId].ownerId = 0
      THEN notifs
      ELSE CreateNotification(notifs, proms[promotionId].ownerId,
                              PROMOTION_ENDED, promotionId, at, by)

\* notification.createMany({ data, skipDuplicates: true }): one row per entry
\* of data.  The rows carry no unique field (the id is generated), so the
\* store has nothing to skip on.
CreateMany(notifs, userIds, type, at, by) ==
  notifs \o [k \in 1..Len(userIds) |-> Notification(userIds[k], type, 0, at, by)]

\* a faulty variant, for comparison: no short-circuit on an empty list
CreateNotificationsForUsersUnguarded(notifs, userIds, type, at) ==
  LET rows == [k \in 1..Len(userIds) |-> Notification(userIds[k], type, 0, at, <<>>)]
  IN  [table |-> notifs \o rows, returned |-> rows, inserts |-> 1]

\* createNotificationsForUsers(userIds, type, ...): the rows it adds and the
\* number of bulk inserts (createManyAndReturn calls) it issues
CreateNotificationsForUsers(notifs, userIds, type, at) ==
  IF Len(userIds) = 0
    THEN [table |-> notifs, returned |-> <<>>, inserts |-> 0]
    ELSE LET rows == [k \in 1..Len(userIds) |->
                        Notification(userIds[k], type, 0, at, <<>>)]
         IN  [table |-> notifs \o rows, returned |-> rows, inserts |-> 1]

\* ------------------------------------------------------ a routine's locals
\* a transaction: the rows it has updated, whether a statement threw inside
\* it, and whether the store has aborted it
NoTx == [open |-> FALSE, updated |-> {}, threw |-> FALSE, aborted |-> FALSE]

\* cursor 0 is undefined.  fetched, visited, failed and batches record what
\* the routine did: page lengths in fetch order, row ids in the order the row
\* loop entered them, rows whose processing threw, and for each transaction
\* that has ended its rows, whether a statement threw inside it, and whether
\* it committed or rolled back.
IdleTask ==
  [pc |-> "idle", now |-> 0, cursor |-> 0, page |-> <<>>, i |-> 0, j |-> 0,
   processedCount |-> 0, notificationCount |-> 0, expiredCount |-> 0,
   queue |-> <<>>, tx |-> NoTx, error |-> FALSE,
   fetched |-> <<>>, visited |-> <<>>, failed |-> {}, batches |-> <<>>]

\* const now = new Date(); let cursor = undefined; counters 0
StartTask(now) == [IdleTask EXCEPT !.pc = "fetch", !.now = now]

\* the last index of subscriptions.slice(i, i + NOTIFICATION_BATCH_SIZE)
BatchEnd(t) == Min(t.i + NOTIFICATION_BATCH_SIZE - 1, Len(t.page))

BatchIds(t) == {t.page[k].id : k \in t.i..BatchEnd(t)}

\* the record of the transaction that ends: its rows, whether a row statement
\* threw inside it, whether the store had aborted it, whether its bulk insert
\* or commit failed, and its outcome
Ended(t, insertFailed, outcome) ==
  [ids |-> BatchIds(t), threw |-> t.tx.threw, aborted |-> t.tx.aborted,
   insertFailed |-> insertFailed, outcome |-> outcome]

\* the writer recorded in a notification: invocation, routine, and for the
\* expired routine the number of the sub-batch
Writer(inv, r, t) == <<inv, r, IF r = SX THEN Len(t.batches) + 1 ELSE 0>>

\* a faulty variant, for comparison: the cursor advances to the last row of
\* the page that did not fail
EndOfPageAtLastSuccess(t) ==
  LET batchLength == Len(t.page)
      ok == {k \in 1..batchLength : t.page[k].id \notin t.failed}
  IN  [t EXCEPT !.processedCount = @ + batchLength,
                !.cursor = IF ok = {} THEN @
                           ELSE t.page[CHOOSE k \in ok : \A m \in ok : m <= k].id,
                !.page = <<>>, !.i = 0, !.j = 0, !.queue = <<>>,
                !.pc = IF batchLength < BATCH_SIZE THEN "done" ELSE "fetch"]

\* a faulty variant, for comparison: only an empty page stops the loop
EndOfPageAlwaysFetches(t) ==
  LET batchLength == Len(t.page)
  IN  [t EXCEPT !.processedCount = @ + batchLength,
                !.cursor = t.page[batchLength].id,
                !.page = <<>>, !.i = 0, !.j = 0, !.queue = <<>>,
                !.pc = "fetch"]

\* after the row loop of a page: count, advance the cursor to the last row,
\* stop on a short page
EndOfPage(t) ==
  LET batchLength == Len(t.page)
  IN  [t EXCEPT !.processedCount = @ + batchLength,
                !.cursor = t.page[batchLength].id,
                !.page = <<>>, !.i = 0, !.j = 0, !.queue = <<>>,
                !.pc = IF batchLength < BATCH_SIZE THEN "done" ELSE "fetch"]

\* the first statement of a row, per routine
RowEntry(r) == IF r = SX THEN "update" ELSE "check"

\* the page just fetched: break on an empty page, else enter the row loop
\* (for the subscription routines: the first sub-batch; for the expired
\* routine the sub-batch's transaction opens)
EnterPage(r, t, page) ==
  IF Len(page) = 0
    THEN [t EXCEPT !.pc = "done", !.fetched = Append(@, 0)]
    ELSE [t EXCEPT !.page = page, !.fetched = Append(@, Len(page)),
                   !.i = IF r \in SubscriptionRoutines THEN 1 ELSE 0,
                   !.j = 1, !.queue = <<>>,
                   !.tx = IF r = SX THEN [NoTx EXCEPT !.open = TRUE] ELSE NoTx,
                   !.pc = RowEntry(r)]

\* for (const promotion of promotions): next row, or the end of the page
NextPromotionRow(t) ==
  IF t.j < Len(t.page)
    THEN [t EXCEPT !.j = @ + 1, !.pc = "check"]
    ELSE EndOfPage(t)

\* for (let i = 0; ...; i += NOTIFICATION_BATCH_SIZE): next sub-batch, or the
\* end of the page
NextSubBatch(r, t) ==
  IF t.i + NOTIFICATION_BATCH_SIZE <= Len(t.page)
    THEN [t EXCEPT !.i = @ + NOTIFICATION_BATCH_SIZE,
                   !.j = t.i + NOTIFICATION_BATCH_SIZE,
                   !.queue = <<>>,
                   !.tx = IF r = SX THEN [NoTx EXCEPT !.open = TRUE] ELSE NoTx,
                   !.pc = RowEntry(r)]
    ELSE EndOfPage([t EXCEPT !.tx = NoTx])

\* for (const subscription of batch): next row of the sub-batch; after the
\* last row the bulk insert (ending soon: only when some user was collected)
\* or the end of the transaction callback (expired)
NextSubscriptionRow(r, t) ==
  IF t.j < BatchEnd(t)
    THEN [t EXCEPT !.j = @ + 1, !.pc = RowEntry(r)]
    ELSE IF r = SX
      THEN [t EXCEPT !.pc = "commit"]
      ELSE IF Len(t.queue) > 0
        THEN [t EXCEPT !.pc = "insert"]
        ELSE NextSubBatch(r, t)

\* a faulty variant, for comparison: the error is logged and the while loop
\* goes on
CatchRoutineGoesOn(t) == [t EXCEPT !.error = TRUE]

\* the routine's outer catch: log, return
CatchRoutine(t) ==
  [t EXCEPT !.error = TRUE, !.pc = "done", !.tx = NoTx]

\* the promise a routine hands to Promise.allSettled: the try / catch spans
\* the whole body of the routine, so the promise is fulfilled when the
\* routine ends, through the loop or through the catch
PromiseOf(t) == IF t.pc = "done" THEN "fulfilled" ELSE "pending"

\* rows another open transaction has updated and not yet committed: the
\* store makes a second writer of such a row wait
LockedByOther(id, inv, tsks) ==
  \E i2 \in Invocations :
     /\ i2 # inv
     /\ tsks[i2][SX].tx.open
     /\ id \in tsks[i2][SX].tx.updated


\* ------------------------------------------------------ the scan routines
SetTask(inv, r, t) == tasks' = [tasks EXCEPT ![inv][r] = t]

Row(t) == t.page[t.j]

\* handleScheduledNotifications (and triggerScheduledNotifications, which only
\* awaits it): the four routines start in the same synchronous stretch, each
\* reads the clock and issues its first findMany
HandleScheduledNotifications(inv) ==
  /\ invocations[inv] = "idle"
  /\ \A i2 \in Invocations : i2 < inv => invocations[i2] # "idle"
  /\ invocations' = [invocations EXCEPT ![inv] = "running"]
  /\ tasks' = [tasks EXCEPT ![inv] = [r \in Routines |-> StartTask(clock)]]
  /\ UNCHANGED <<clock, promotions, userSubscriptions, notifications,
                 sessions, faults, bulk>>

\* the order in which handleScheduledNotifications calls the routines
CallOrder == <<PES, PE, SES, SX>>

\* handleScheduledNotifications when the clock advances inside the synchronous
\* stretch: each routine reads the clock itself (const now = new Date()) when
\* it is called, so the first k routines read the time before the advance
\* and the others the time after it
HandleScheduledNotificationsAcrossTick(inv, k) ==
  /\ invocations[inv] = "idle"
  /\ \A i2 \in Invocations : i2 < inv => invocations[i2] # "idle"
  /\ clock < MaxClock
  /\ clock' = clock + 1
  /\ invocations' = [invocations EXCEPT ![inv] = "running"]
  /\ tasks' = [tasks EXCEPT ![inv] =
                 [r \in Routines |->
                    IF \E c \in 1..k : CallOrder[c] = r
                      THEN StartTask(clock)
                      ELSE StartTask(clock + 1)]]
  /\ UNCHANGED <<promotions, userSubscriptions, notifications,
                 sessions, faults, bulk>>

\* a faulty variant, for comparison: the first routine that returns resolves
\* the wait
SettledAny(inv) == \E r \in Routines : tasks[inv][r].pc = "done"

\* every promise handed to Promise.allSettled has settled
Settled(inv) == \A r \in Routines : tasks[inv][r].pc = "done"

\* Promise.allSettled resolves once the four routines have returned; the
\* handler logs and returns
AllSettled(inv) ==
  /\ invocations[inv] = "running"
  /\ Settled(inv)
  /\ invocations' = [invocations EXCEPT ![inv] = "done"]
  /\ UNCHANGED <<clock, promotions, userSubscriptions, notifications,
                 tasks, sessions, faults, bulk>>

\* await prisma.<table>.findMany(...) at the head of the while loop
FetchPage(inv, r) ==
  LET t == tasks[inv][r]
  IN  /\ t.pc = "fetch"
      /\ SetTask(inv, r,
           EnterPage(r, t, FindMany(r, t.now, t.cursor, promotions, userSubscriptions)))
      /\ UNCHANGED <<clock, promotions, userSubscriptions, notifications,
                     invocations, sessions, faults, bulk>>

\* a faulty variant, for comparison: the owner chain is not tested
OwnerResolvesAlways(row) == TRUE

\* promotion.product?.store?.ownerId: undefined (or null) when the product,
\* the store or the owner of the selected row does not resolve
OwnerResolves(row) == row.ownerId # 0

\* the dedup read of a promotion row: notify when nothing recent exists and
\* the owner chain resolves (promotion.product?.store?.ownerId)
CheckPromotion(inv, r) ==
  LET t == tasks[inv][r]
      seen == [t EXCEPT !.visited = Append(@, Row(t).id)]
  IN  /\ r \in PromotionRoutines
      /\ t.pc = "check"
      /\ SetTask(inv, r,
           IF ~ExistingNotification(r, Row(t), t.now, notifications)
              /\ OwnerResolves(Row(t))
             THEN [seen EXCEPT !.pc = "notify"]
             ELSE NextPromotionRow(seen))
      /\ UNCHANGED <<clock, promotions, userSubscriptions, notifications,
                     invocations, sessions, faults, bulk>>

\* a faulty variant, for comparison: both promotion routines deactivate the
\* promotion they have notified for
DeactivatesAlways(r) == TRUE

\* the row loop of the ended routine goes on to prisma.promotion.update after
\* the notification; the row loop of the ending-soon routine has no write to
\* the promotion table
Deactivates(r) == r = PE

\* await notificationService.notifyPromotionEndingSoon / notifyPromotionEnded,
\* then notificationCount++
NotifyPromotion(inv, r) ==
  LET t == tasks[inv][r]
      counted == [t EXCEPT !.notificationCount = @ + 1]
  IN  /\ r \in PromotionRoutines
      /\ t.pc = "notify"
      /\ notifications' =
           IF r = PES
             THEN NotifyPromotionEndingSoon(notifications, Row(t).id, promotions,
                                            clock, Writer(inv, r, t))
             ELSE NotifyPromotionEnded(notifications, Row(t).id, promotions,
                                       clock, Writer(inv, r, t))
      /\ SetTask(inv, r,
           IF Deactivates(r) THEN [counted EXCEPT !.pc = "deactivate"]
                             ELSE NextPromotionRow(counted))
      /\ UNCHANGED <<clock, promotions, userSubscriptions, invocations,
                     sessions, faults, bulk>>

\* await prisma.promotion.update({ where: { id }, data: { active: false } })
DeactivatePromotion(inv, r) ==
  LET t == tasks[inv][r]
  IN  /\ r \in PromotionRoutines
      /\ t.pc = "deactivate"
      /\ promotions' = [promotions EXCEPT ![Row(t).id].active = FALSE]
      /\ SetTask(inv, r, NextPromotionRow(t))
      /\ UNCHANGED <<clock, userSubscriptions, notifications, invocations,
                     sessions, faults, bulk>>

\* the dedup read of a subscription row (ending soon: through prisma; expired:
\* through tx, after the row's update): collect the user when nothing recent
\* exists
CheckSubscription(inv, r) ==
  LET t == tasks[inv][r]
      seen == IF r = SES THEN [t EXCEPT !.visited = Append(@, Row(t).id)] ELSE t
  IN  /\ r \in SubscriptionRoutines
      /\ t.pc = "check"
      /\ ~t.tx.aborted
      /\ SetTask(inv, r,
           NextSubscriptionRow(r,
             IF ~ExistingNotification(r, Row(t), t.now, notifications)
               THEN [seen EXCEPT !.queue = Append(@, Row(t).userId)]
               ELSE seen))
      /\ UNCHANGED <<clock, promotions, userSubscriptions, notifications,
                     invocations, sessions, faults, bulk>>

\* ending soon: await prisma.notification.createMany(...), then
\* notificationCount += userIdsToNotify.length
BulkInsert(inv) ==
  LET t == tasks[inv][SES]
  IN  /\ t.pc = "insert"
      /\ notifications' = CreateMany(notifications, t.queue,
                                     SUBSCRIPTION_ENDING_SOON, clock, Writer(inv, SES, t))
      /\ SetTask(inv, SES,
           NextSubBatch(SES, [t EXCEPT !.notificationCount = @ + Len(t.queue)]))
      /\ UNCHANGED <<clock, promotions, userSubscriptions, invocations,
                     sessions, faults, bulk>>

\* expired: await tx.userSubscription.update({ where: { id }, data: { status:
\* EXPIRED } }), then expiredCount++.  The write stays private to the
\* transaction until it commits and waits while another transaction holds
\* the row.
UpdateSubscription(inv) ==
  LET t == tasks[inv][SX]
  IN  /\ t.pc = "update"
      /\ ~t.tx.aborted
      /\ ~LockedByOther(Row(t).id, inv, tasks)
      /\ SetTask(inv, SX,
           [t EXCEPT !.tx.updated = @ \cup {Row(t).id},
                     !.expiredCount = @ + 1,
                     !.visited = Append(@, Row(t).id),
                     !.pc = "check"])
      /\ UNCHANGED <<clock, promotions, userSubscriptions, notifications,
                     invocations, sessions, faults, bulk>>

\* the rows a committing transaction sets EXPIRED
ApplyUpdates(subs, updated) ==
  [k \in 1..Len(subs) |->
     IF k \in updated THEN [subs[k] EXCEPT !.status = EXPIRED] ELSE subs[k]]

\* expired: the end of the transaction callback: the bulk insert of the queued
\* notifications (when there are any), then the commit of the sub-batch
CommitTransaction(inv) ==
  LET t == tasks[inv][SX]
      counted == IF Len(t.queue) > 0
                   THEN [t EXCEPT !.notificationCount = @ + Len(t.queue)]
                   ELSE t
  IN  /\ t.pc = "commit"
      /\ ~t.tx.aborted
      /\ userSubscriptions' = ApplyUpdates(userSubscriptions, t.tx.updated)
      /\ notifications' =
           IF Len(t.queue) > 0
             THEN CreateMany(notifications, t.queue, SUBSCRIPTION_EXPIRED,
                             clock, Writer(inv, SX, t))
             ELSE notifications
      /\ SetTask(inv, SX,
           NextSubBatch(SX, [counted EXCEPT !.batches = Append(@, Ended(t, FALSE, "committed"))]))
      /\ UNCHANGED <<clock, promotions, invocations, sessions, faults, bulk>>


\* ------------------------------------------------------- store failures
\* A store call that throws.  At most MaxFaults of them are injected.
Fault ==
  /\ faults < MaxFaults
  /\ faults' = faults + 1

\* a faulty variant, for comparison: the failure of one routine ends every routine of the invocation
RejectedCancelsAll(tsks, inv, r) ==
  [tsks EXCEPT ![inv] = [r2 \in Routines |->
     IF tsks[inv][r2].pc = "done" THEN tsks[inv][r2] ELSE CatchRoutine(tsks[inv][r2])]]

\* a routine whose promise rejects inside itself: its own catch ends it, the
\* other routines of the invocation go on
Rejected(tsks, inv, r) == [tsks EXCEPT ![inv][r] = CatchRoutine(tsks[inv][r])]

\* a findMany that throws leaves the while loop through the routine's outer
\* catch: the remaining pages are not read
FailFetch(inv, r) ==
  LET t == tasks[inv][r]
  IN  /\ t.pc = "fetch"
      /\ Fault
      /\ tasks' = Rejected(tasks, inv, r)
      /\ UNCHANGED <<clock, promotions, userSubscriptions, notifications,
                     invocations, sessions, bulk>>

\* a promotion row whose dedup read, notify call or deactivation throws: the
\* per-row catch logs it and the loop goes on with the next row
\* a faulty variant, for comparison: the failing row ends the row loop of its page
CaughtPromotionRowBreaks(t) ==
  EndOfPage([t EXCEPT !.visited = IF t.pc = "check" THEN Append(@, Row(t).id) ELSE @,
                      !.failed = @ \cup {Row(t).id}])

CaughtPromotionRow(t) ==
  NextPromotionRow(
    [t EXCEPT !.visited = IF t.pc = "check" THEN Append(@, Row(t).id) ELSE @,
              !.failed = @ \cup {Row(t).id}])

FailPromotionRow(inv, r) ==
  LET t == tasks[inv][r]
  IN  /\ r \in PromotionRoutines
      /\ t.pc \in {"check", "notify", "deactivate"}
      /\ Fault
      /\ SetTask(inv, r, CaughtPromotionRow(t))
      /\ UNCHANGED <<clock, promotions, userSubscriptions, notifications,
                     invocations, sessions, bulk>>

\* ending soon: a dedup read that throws is caught per row; the user is not
\* collected
FailCheckSubscription(inv) ==
  LET t == tasks[inv][SES]
  IN  /\ t.pc = "check"
      /\ Fault
      /\ SetTask(inv, SES,
           NextSubscriptionRow(SES, [t EXCEPT !.visited = Append(@, Row(t).id),
                                              !.failed = @ \cup {Row(t).id}]))
      /\ UNCHANGED <<clock, promotions, userSubscriptions, notifications,
                     invocations, sessions, bulk>>

\* a faulty variant, for comparison: the createMany that throws leaves the
\* while loop through the routine's outer catch
FailBulkInsertEndsRoutine(inv) ==
  /\ tasks[inv][SES].pc = "insert"
  /\ Fault
  /\ tasks' = Rejected(tasks, inv, SES)
  /\ UNCHANGED <<clock, promotions, userSubscriptions, notifications,
                 invocations, sessions, bulk>>

\* ending soon: a createMany that throws is caught around the insert; the
\* count is not raised
FailBulkInsert(inv) ==
  LET t == tasks[inv][SES]
  IN  /\ t.pc = "insert"
      /\ Fault
      /\ SetTask(inv, SES, NextSubBatch(SES, t))
      /\ UNCHANGED <<clock, promotions, userSubscriptions, notifications,
                     invocations, sessions, bulk>>

\* the row whose statement threw inside the transaction callback: caught per
\* row, the loop goes on
CaughtInTransaction(t, poisoned) ==
  NextSubscriptionRow(SX,
    [t EXCEPT !.visited = IF t.pc = "update" THEN Append(@, Row(t).id) ELSE @,
              !.failed = @ \cup {Row(t).id},
              !.tx.threw = TRUE,
              !.tx.aborted = poisoned])

\* expired: a row's update or dedup read throws inside the transaction.  The
\* error either leaves the transaction usable (a client-side error, such as
\* a record that is not found) or it is a statement error after which the
\* store aborts the transaction.
FailTxStatement(inv, poisoned) ==
  LET t == tasks[inv][SX]
  IN  /\ t.pc \in {"update", "check"}
      /\ ~t.tx.aborted
      /\ Fault
      /\ SetTask(inv, SX, CaughtInTransaction(t, poisoned))
      /\ UNCHANGED <<clock, promotions, userSubscriptions, notifications,
                     invocations, sessions, bulk>>

\* every later statement of an aborted transaction is rejected by the store
RejectedInTransaction(inv) ==
  LET t == tasks[inv][SX]
  IN  /\ t.pc \in {"update", "check"}
      /\ t.tx.aborted
      /\ SetTask(inv, SX, CaughtInTransaction(t, TRUE))
      /\ UNCHANGED <<clock, promotions, userSubscriptions, notifications,
                     invocations, sessions, faults, bulk>>

\* the transaction is rolled back: its updates and its insert are dropped,
\* the table is what it was
Rollback(t, insertFailed) ==
  [t EXCEPT !.batches = Append(@, Ended(t, insertFailed, "rolledBack")), !.tx = NoTx]

\* a faulty variant, for comparison: the updates were not made through the transaction: they stay
RolledBackKeepsUpdates(subs, t) ==
  [k \in 1..Len(subs) |->
     IF k \in t.tx.updated THEN [subs[k] EXCEPT !.status = EXPIRED] ELSE subs[k]]

\* a faulty variant, for comparison: one transaction spans the scan: the rollback undoes every row
\* the scan has set EXPIRED
RolledBackUndoesScan(subs, t) ==
  [k \in 1..Len(subs) |->
     IF \E m \in 1..Len(t.visited) : t.visited[m] = k
       THEN [subs[k] EXCEPT !.status = ACTIVE] ELSE subs[k]]

RolledBack(subs, t) == subs

\* expired: the bulk insert or the commit throws, or the 30 s timeout ends the
\* transaction: $transaction rolls back and rejects, which leaves the while
\* loop through the routine's outer catch
FailTransaction(inv) ==
  LET t == tasks[inv][SX]
  IN  /\ t.pc = "commit"
      /\ ~t.tx.aborted
      /\ Fault
      /\ userSubscriptions' = RolledBack(userSubscriptions, t)
      /\ SetTask(inv, SX, CatchRoutine(Rollback(t, TRUE)))
      /\ UNCHANGED <<clock, promotions, notifications, invocations, sessions, bulk>>

\* expired: the callback of an aborted transaction ends.  With notifications
\* queued the bulk insert is rejected and $transaction rejects; with none
\* queued the commit of the aborted transaction rolls back, and $transaction
\* either reports that or not.
EndAbortedTransaction(inv, throws) ==
  LET t == tasks[inv][SX]
  IN  /\ t.pc = "commit"
      /\ t.tx.aborted
      /\ Len(t.queue) > 0 => throws
      /\ userSubscriptions' = RolledBack(userSubscriptions, t)
      /\ SetTask(inv, SX,
           IF throws THEN CatchRoutine(Rollback(t, Len(t.queue) > 0))
                     ELSE NextSubBatch(SX, Rollback(t, FALSE)))
      /\ UNCHANGED <<clock, promotions, notifications, invocations, sessions,
                     faults, bulk>>

\* ------------------------------------------------- SubscriptionService calls
\* a session is one user request: idle until the request arrives, closed once
\* it has been answered (NumSessions bounds the number of requests)
IdleSession == [pc |-> "idle", op |-> "none", userId |-> 0, active |-> 0, endsAt |-> NoDate]
ClosedSession == [IdleSession EXCEPT !.pc = "closed"]

\* the end dates of the subscription plans a retailer can join
PlanEndsAt == {At(1)}

\* getActiveUserSubscription: findFirst({ where: { userId, status: ACTIVE },
\* orderBy: { createdAt: 'desc' } }): the id of the newest ACTIVE row, 0 for null
GetActiveUserSubscription(userId, subs) ==
  LET ids == {k \in 1..Len(subs) : subs[k].userId = userId /\ subs[k].status = ACTIVE}
  IN  IF ids = {} THEN 0 ELSE CHOOSE k \in ids : \A m \in ids : m <= k

\* rows some open transaction has updated
Locked(id) == LockedByOther(id, 0, tasks)

\* joinSubscription, up to its read of the user's active subscription
JoinSubscription(s, userId, endsAt) ==
  LET active == GetActiveUserSubscription(userId, userSubscriptions)
      creating == {x \in Sessions : sessions[x].op = "join"}
  IN  /\ sessions[s].pc = "idle"
      /\ Len(userSubscriptions) + Cardinality(creating) < MaxSubscriptions
      /\ sessions' = [sessions EXCEPT ![s] =
           [pc |-> IF active # 0 THEN "cancel" ELSE "create", op |-> "join",
            userId |-> userId, active |-> active, endsAt |-> endsAt]]
      /\ UNCHANGED <<clock, promotions, userSubscriptions, notifications,
                     invocations, tasks, faults, bulk>>

\* joinSubscription: update({ where: { id: activeSubscription.id }, data: {
\* status: CANCELLED } })
JoinCancelsActive(s) ==
  /\ sessions[s].pc = "cancel"
  /\ ~Locked(sessions[s].active)
  /\ userSubscriptions' =
       [userSubscriptions EXCEPT ![sessions[s].active].status = CANCELLED]
  /\ sessions' = [sessions EXCEPT ![s].pc = "create"]
  /\ UNCHANGED <<clock, promotions, notifications, invocations, tasks, faults, bulk>>

\* joinSubscription: userSubscription.create({ status: ACTIVE, endsAt:
\* templateSubscription.endsAt, user })
JoinCreates(s) ==
  /\ sessions[s].pc = "create"
  /\ userSubscriptions' = Append(userSubscriptions,
       [userId |-> sessions[s].userId, status |-> ACTIVE, endsAt |-> sessions[s].endsAt])
  /\ sessions' = [sessions EXCEPT ![s] = ClosedSession]
  /\ UNCHANGED <<clock, promotions, notifications, invocations, tasks, faults, bulk>>

\* cancelRetailerSubscription, up to its read; without an active subscription
\* it throws and changes nothing
CancelRetailerSubscription(s, userId) ==
  LET active == GetActiveUserSubscription(userId, userSubscriptions)
  IN  /\ sessions[s].pc = "idle"
      /\ active # 0
      /\ sessions' = [sessions EXCEPT ![s] =
           [pc |-> "update", op |-> "cancel", userId |-> userId,
            active |-> active, endsAt |-> NoDate]]
      /\ UNCHANGED <<clock, promotions, userSubscriptions, notifications,
                     invocations, tasks, faults, bulk>>

\* cancelRetailerSubscription: update({ where: { id }, data: { status: CANCELLED } })
CancelUpdates(s) ==
  /\ sessions[s].pc = "update"
  /\ ~Locked(sessions[s].active)
  /\ userSubscriptions' =
       [userSubscriptions EXCEPT ![sessions[s].active].status = CANCELLED]
  /\ sessions' = [sessions EXCEPT ![s] = ClosedSession]
  /\ UNCHANGED <<clock, promotions, notifications, invocations, tasks, faults, bulk>>

\* ------------------------------------------------------------ environment
\* an hour passes
Tick ==
  /\ clock < MaxClock
  /\ clock' = clock + 1
  /\ UNCHANGED <<promotions, userSubscriptions, notifications, invocations,
                 tasks, sessions, faults, bulk>>

NoneRunning == \A inv \in Invocations : invocations[inv] # "running"

\* sequences over S of length at most n
SeqsUpTo(S, n) == UNION {[1..k -> S] : k \in 0..n}

NoBulk == [called |-> FALSE, userIds |-> <<>>, returned |-> <<>>, inserts |-> 0,
           before |-> <<>>]

\* a caller of createNotificationsForUsers
CallCreateNotificationsForUsers(userIds, type) ==
  LET res == CreateNotificationsForUsers(notifications, userIds, type, clock)
  IN  /\ Len(notifications) + Len(userIds) <= MaxBulk
      /\ notifications' = res.table
      /\ bulk' = [called |-> TRUE, userIds |-> userIds, returned |-> res.returned,
                  inserts |-> res.inserts, before |-> notifications]
      /\ UNCHANGED <<clock, promotions, userSubscriptions, invocations, tasks,
                     sessions, faults>>


\* ------------------------------------------------------------ initial states
PromotionRow(active, endsAt, ownerId) ==
  [active |-> active, endsAt |-> endsAt, ownerId |-> ownerId]

SubscriptionRow(userId, status, endsAt) ==
  [userId |-> userId, status |-> status, endsAt |-> endsAt]

InitWith(clk, proms, subs, sess) ==
  /\ clock = clk
  /\ promotions = proms
  /\ userSubscriptions = subs
  /\ notifications = <<>>
  /\ invocations = [inv \in Invocations |-> "idle"]
  /\ tasks = [inv \in Invocations |-> [r \in Routines |-> IdleTask]]
  /\ sessions = sess
  /\ faults = 0
  /\ bulk = NoBulk

OpenSessions == [s \in Sessions |-> IdleSession]
ClosedSessions == [s \in Sessions |-> ClosedSession]

\* small tables at hour 1: promotions that ended in the last hour (endsAt 0),
\* that end soon (endsAt 2) or that never end, active or not, with an owner
\* chain that resolves (ownerId 1) or not (ownerId 0)
SmallPromotionRows ==
  {PromotionRow(a, e, o) : a \in BOOLEAN, e \in {NoDate, At(0), At(2)}, o \in {0, 1}}

SmallPromotionTables == {<<a, b>> : a \in SmallPromotionRows, b \in SmallPromotionRows}

\* at most one subscription row to start with; joinSubscription adds more
SmallSubscriptionTables ==
  {<<>>} \cup {<<SubscriptionRow(1, st, e)>> :
                 st \in {ACTIVE, PENDING}, e \in {NoDate, At(0), At(1)}}

Init ==
  \/ \E proms \in SmallPromotionTables : InitWith(1, proms, <<>>, ClosedSessions)
  \/ \E subs \in SmallSubscriptionTables : InitWith(1, <<>>, subs, OpenSessions)

\* --------------------------------------------------------- specifications
\* the steps of the scan routines of invocation inv
ScanStep(inv) ==
  \/ \E r \in Routines : FetchPage(inv, r)
  \/ \E r \in PromotionRoutines : CheckPromotion(inv, r)
  \/ \E r \in PromotionRoutines : NotifyPromotion(inv, r)
  \/ \E r \in PromotionRoutines : DeactivatePromotion(inv, r)
  \/ \E r \in SubscriptionRoutines : CheckSubscription(inv, r)
  \/ BulkInsert(inv)
  \/ UpdateSubscription(inv)
  \/ CommitTransaction(inv)
  \/ AllSettled(inv)

FaultStep(inv) ==
  \/ \E r \in Routines : FailFetch(inv, r)
  \/ \E r \in PromotionRoutines : FailPromotionRow(inv, r)
  \/ FailCheckSubscription(inv)
  \/ FailBulkInsert(inv)
  \/ \E poisoned \in BOOLEAN : FailTxStatement(inv, poisoned)
  \/ RejectedInTransaction(inv)
  \/ FailTransaction(inv)
  \/ \E throws \in BOOLEAN : EndAbortedTransaction(inv, throws)

SessionStep(s) ==
  \/ \E u \in Users, e \in PlanEndsAt : JoinSubscription(s, u, e)
  \/ JoinCancelsActive(s)
  \/ JoinCreates(s)
  \/ \E u \in Users : CancelRetailerSubscription(s, u)
  \/ CancelUpdates(s)

\* Spec: invocations one after the other (an invocation starts when no other
\* is running), user requests between the scans, no store failure
Next ==
  \/ \E inv \in Invocations : NoneRunning /\ HandleScheduledNotifications(inv)
  \/ \E inv \in Invocations : ScanStep(inv)
  \/ \E s \in Sessions : NoneRunning /\ SessionStep(s)
  \/ Tick

Spec == Init /\ [][Next]_vars

\* SpecRace: invocations may overlap (the hourly trigger or the manual trigger
\* fires while an earlier invocation is running) and user requests interleave
\* with the scans, all within one hour; no store failure
InitRace ==
  \/ \E row \in SmallPromotionRows : InitWith(1, <<row>>, <<>>, ClosedSessions)
  \/ \E e \in {At(0), At(1)} :
       InitWith(1, <<>>, <<SubscriptionRow(1, ACTIVE, e)>>, OpenSessions)

NextRace ==
  \/ \E inv \in Invocations : HandleScheduledNotifications(inv)
  \/ \E inv \in Invocations : ScanStep(inv)
  \/ \E s \in Sessions : SessionStep(s)

SpecRace == InitRace /\ [][NextRace]_vars

\* SpecPaging: one invocation over a table of n rows that all match one
\* routine's predicate at hour 1; nothing else writes, no store failure
PagingSizes ==
  {0, 1, BATCH_SIZE - 1, BATCH_SIZE, BATCH_SIZE + 1, 2 * BATCH_SIZE, MaxRows}

\* n promotions (each with its own owner) that routine r selects at hour 1
PromotionsFor(r, n) ==
  [k \in 1..n |-> PromotionRow(TRUE, IF r = PES THEN At(2) ELSE At(0), k)]

\* n ACTIVE subscriptions (each of its own user) that routine r selects at hour 1
SubscriptionsFor(r, n) ==
  [k \in 1..n |-> SubscriptionRow(k, ACTIVE, IF r = SES THEN At(2) ELSE At(0))]

InitFor(r, n) ==
  InitWith(1,
           IF r \in PromotionRoutines THEN PromotionsFor(r, n) ELSE <<>>,
           IF r \in SubscriptionRoutines THEN SubscriptionsFor(r, n) ELSE <<>>,
           ClosedSessions)

InitPaging == \E r \in Routines, n \in PagingSizes : InitFor(r, n)

NextPaging ==
  \/ \E inv \in Invocations : inv = 1 /\ HandleScheduledNotifications(inv)
  \/ \E inv \in Invocations : ScanStep(inv)

SpecPaging == InitPaging /\ [][NextPaging]_vars

\* SpecPagingLive: SpecPaging in which every awaited store call is answered
\* in the end
SpecPagingLive == SpecPaging /\ WF_vars(\E inv \in Invocations : ScanStep(inv))

\* SpecFaults: the hourly trigger (an invocation starts when none is running,
\* the second one an hour after the first), with up to MaxFaults store calls
\* that throw; no user request
MixedPromotions == <<PromotionRow(TRUE, At(2), 1), PromotionRow(TRUE, At(0), 2)>>

MixedSubscriptions ==
  <<SubscriptionRow(1, ACTIVE, At(0)), SubscriptionRow(2, ACTIVE, At(0)),
    SubscriptionRow(3, ACTIVE, At(2))>>

InitFaults ==
  \/ InitWith(1, MixedPromotions, MixedSubscriptions, ClosedSessions)
  \/ \E r \in PromotionRoutines : InitFor(r, BATCH_SIZE)
  \/ InitFor(SX, BATCH_SIZE + 2)

Hourly(inv) ==
  /\ NoneRunning
  /\ inv > 1 => clock = tasks[inv - 1][SX].now + OneHour

NextFaults ==
  \/ \E inv \in Invocations : Hourly(inv) /\ HandleScheduledNotifications(inv)
  \/ \E inv \in Invocations : ScanStep(inv)
  \/ \E inv \in Invocations : FaultStep(inv)
  \/ NoneRunning /\ Tick

SpecFaults == InitFaults /\ [][NextFaults]_vars

\* the steps the event loop takes for invocation inv without a new failure:
\* a store call that answers (an aborted transaction answers with a
\* rejection), a callback that returns
Progress(inv) ==
  \/ ScanStep(inv)
  \/ RejectedInTransaction(inv)
  \/ \E throws \in BOOLEAN : EndAbortedTransaction(inv, throws)

\* SpecFaultsLive: the hourly trigger with store failures over the small mixed
\* tables, in which every awaited store call is answered in the end
InitFaultsLive == InitWith(1, MixedPromotions, MixedSubscriptions, ClosedSessions)

SpecFaultsLive ==
  /\ InitFaultsLive
  /\ [][NextFaults]_vars
  /\ WF_vars(\E inv \in Invocations : Progress(inv))

\* SpecRescan: invocations one after the other, the second in the same hour
\* as the first (the manual trigger) or later, with up to MaxFaults store
\* calls that throw; no user request
NextRescan ==
  \/ \E inv \in Invocations : NoneRunning /\ HandleScheduledNotifications(inv)
  \/ \E inv \in Invocations : ScanStep(inv)
  \/ \E inv \in Invocations : FaultStep(inv)
  \/ NoneRunning /\ Tick

SpecRescan == InitFaultsLive /\ [][NextRescan]_vars

\* SpecContain: the hourly trigger with up to MaxFaults store calls that
\* throw, over the small mixed tables or over BATCH_SIZE + 2 subscriptions
\* that end soon (a full page and a short one)
InitContain ==
  \/ InitWith(1, MixedPromotions, MixedSubscriptions, ClosedSessions)
  \/ InitFor(SES, BATCH_SIZE + 2)

SpecContain == InitContain /\ [][NextFaults]_vars

\* SpecSkew: one invocation over one promotion and one subscription that end
\* an hour before, at, or an hour after the start of the invocation; the
\* clock may advance between the clock reads of two routines
InitSkew ==
  \E e \in {At(0), At(1), At(2)} :
    InitWith(1, <<PromotionRow(TRUE, e, 1)>>, <<SubscriptionRow(1, ACTIVE, e)>>,
             ClosedSessions)

NextSkew ==
  \/ \E inv \in Invocations : inv = 1 /\ HandleScheduledNotifications(inv)
  \/ \E inv \in Invocations, k \in 1..3 :
       inv = 1 /\ HandleScheduledNotificationsAcrossTick(inv, k)
  \/ \E inv \in Invocations : ScanStep(inv)

SpecSkew == InitSkew /\ [][NextSkew]_vars

\* SpecBulk: calls of createNotificationsForUsers with up to MaxBulk user ids
BulkTypes == {SUBSCRIPTION_AVAILABLE, PROMOTION_ENDED}

InitBulk == InitWith(1, <<>>, <<>>, ClosedSessions)

NextBulk ==
  \E userIds \in SeqsUpTo(Users, MaxBulk), type \in BulkTypes :
     CallCreateNotificationsForUsers(userIds, type)

SpecBulk == InitBulk /\ [][NextBulk]_vars

\* SpecDedup: one invocation at hour ProbeHour over a table whose row 1 is
\* selected by routine r (row 2 is not selected by any routine), with up to
\* MaxEarlier notifications written earlier: for row 1 or for row 2, of any
\* type of r's table, created at now or 1, 2, 24, 25, 48 or 49 hours before
EarlierHours == {0, 1, 2, 24, 25, 48, 49}

EarlierNotifications(r) ==
  IF r \in PromotionRoutines
    THEN {Notification(p, ty, p, ProbeHour - h, <<>>) :
            p \in {1, 2}, ty \in {PROMOTION_ENDING_SOON, PROMOTION_ENDED},
            h \in EarlierHours}
    ELSE {Notification(u, ty, 0, ProbeHour - h, <<>>) :
            u \in {1, 2}, ty \in {SUBSCRIPTION_ENDING_SOON, SUBSCRIPTION_EXPIRED},
            h \in EarlierHours}

InitDedup ==
  \E r \in Routines :
    \E earlier \in SeqsUpTo(EarlierNotifications(r), MaxEarlier) :
      LET e == IF r \in {PES, SES} THEN At(ProbeHour + 1) ELSE At(ProbeHour - 1)
      IN  /\ clock = ProbeHour
          /\ promotions = IF r \in PromotionRoutines
                            THEN <<PromotionRow(TRUE, e, 1), PromotionRow(FALSE, e, 2)>>
                            ELSE <<>>
          /\ userSubscriptions = IF r \in SubscriptionRoutines
                                   THEN <<SubscriptionRow(1, ACTIVE, e),
                                          SubscriptionRow(2, CANCELLED, e)>>
                                   ELSE <<>>
          /\ notifications = earlier
          /\ invocations = [inv \in Invocations |-> "idle"]
          /\ tasks = [inv \in Invocations |-> [r2 \in Routines |-> IdleTask]]
          /\ sessions = ClosedSessions
          /\ faults = 0
          /\ bulk = NoBulk

SpecDedup == InitDedup /\ [][NextPaging]_vars

\* SpecWindow: one invocation at hour ProbeHour over every two-row table
\* whose rows are active or not (of any status) and have no end date or end
\* 2 or 1 hours before now, at now, or 24, 25, 48 or 49 hours after now
WindowEdges == {-2, -1, 0, 24, 25, 48, 49}

EdgeDates == {NoDate} \cup {At(ProbeHour + d) : d \in WindowEdges}

InitWindow ==
  \/ \E a1, a2 \in BOOLEAN, e1, e2 \in EdgeDates :
       InitWith(ProbeHour, <<PromotionRow(a1, e1, 1), PromotionRow(a2, e2, 2)>>,
                <<>>, ClosedSessions)
  \/ \E s1, s2 \in {ACTIVE, CANCELLED, EXPIRED, PENDING}, e1, e2 \in EdgeDates :
       InitWith(ProbeHour, <<>>,
                <<SubscriptionRow(1, s1, e1), SubscriptionRow(2, s2, e2)>>,
                ClosedSessions)

SpecWindow == InitWindow /\ [][NextPaging]_vars

\* ------------------------------------------------------------------ claims
\* the notifications a scan routine wrote for subject key `key`
WrittenFor(r, key) ==
  {k \in 1..Len(notifications) :
     /\ notifications[k].type = TypeOf(r)
     /\ notifications[k].by # <<>>
     /\ IF r \in PromotionRoutines
          THEN notifications[k].promotionId = key
          ELSE notifications[k].userId = key}

Abs(x) == IF x < 0 THEN 0 - x ELSE x

\* C1 (as claimed): once the scans that ran one after the other have all
\* ended, any two of them with their `now` inside one dedup window have
\* created in total at most one notification per (subject key, type) pair, for
\* each of the four kinds.
C1_IdempotenceAcrossRuns ==
  (\A inv \in Invocations : invocations[inv] = "done")
    => \A r \in Routines :
         \A k1, k2 \in 1..Len(notifications) :
           LET n1 == notifications[k1]
               n2 == notifications[k2]
           IN  ( /\ n1.by # <<>> /\ n2.by # <<>>
                 /\ n1.type = TypeOf(r) /\ n2.type = TypeOf(r)
                 /\ IF r \in PromotionRoutines
                      THEN n1.promotionId = n2.promotionId
                      ELSE n1.userId = n2.userId
                 /\ Abs(tasks[n1.by[1]][r].now - tasks[n2.by[1]][r].now) <= DedupHours(r) )
               => k1 = k2

\* every row the expired routine of invocation inv selected is EXPIRED, its
\* user has exactly one SUBSCRIPTION_EXPIRED notification of the last hour,
\* and no other scan has selected the same row
ExpiredExactlyOnce(inv) ==
  LET t == tasks[inv][SX]
  IN  \A k \in 1..Len(t.visited) :
        LET id == t.visited[k]
            recent == {n \in WrittenFor(SX, userSubscriptions[id].userId) :
                         notifications[n].createdAt >= t.now - OneHour}
        IN  /\ userSubscriptions[id].status = EXPIRED
            /\ Cardinality(recent) = 1
            /\ \A i2 \in Invocations \ {inv} :
                 \A m \in 1..Len(tasks[i2][SX].visited) : tasks[i2][SX].visited[m] # id

\* C2 (as claimed): when an error-free scan ends, every subscription that
\* checkSubscriptionsExpired selected (ACTIVE, endsAt inside the last hour) is
\* EXPIRED with exactly one SUBSCRIPTION_EXPIRED notification for its user,
\* and no later sequential scan selects it again.
C2_TransitionExactlyOnce ==
  [][\A inv \in Invocations :
       (invocations[inv] = "running" /\ invocations'[inv] = "done")
         => ExpiredExactlyOnce(inv)']_vars

\* the ids of the rows routine r selects at hour now, in ascending order
Matching(r, now) ==
  LET ids == [k \in 1..TableLen(r, promotions, userSubscriptions) |-> k]
      Test(k) == Where(r, k, now, promotions, userSubscriptions)
  IN  SelectSeq(ids, Test)

NoRepeat(seq) == \A a, b \in 1..Len(seq) : seq[a] = seq[b] => a = b

\* C3: when more than BATCH_SIZE rows match and the set does not change during
\* the scan (the two routines that write no entity row), the finished scan has
\* visited every matching row exactly once, in id order; 120 rows take exactly
\* the fetches 50, 50, 20, and the short last page ends the loop.
C3_PaginationCompleteness ==
  \A inv \in Invocations : \A r \in {PES, SES} :
    LET t == tasks[inv][r]
        m == Matching(r, t.now)
    IN  (t.pc = "done" /\ Len(m) > BATCH_SIZE)
          => /\ t.visited = m
             /\ NoRepeat(t.visited)
             /\ t.processedCount = Len(m)
             /\ Len(m) = 120 => t.fetched = <<50, 50, 20>>
             /\ t.fetched[Len(t.fetched)] < BATCH_SIZE

C3_Witness ==
  \E r \in {PES, SES} :
    /\ tasks[1][r].pc = "done"
    /\ Len(tasks[1][r].visited) = 120
    /\ tasks[1][r].fetched = <<50, 50, 20>>

\* the notifications routine r of invocation inv wrote
WrittenBy(inv, r) ==
  {k \in 1..Len(notifications) :
     /\ notifications[k].by # <<>>
     /\ notifications[k].by[1] = inv
     /\ notifications[k].by[2] = r}

ViewOf(inv, r) ==
  LET IsMine(n) == n.type = TypeOf(r)
  IN  <<[k \in 1..TableLen(r, promotions, userSubscriptions) |->
           Where(r, k, tasks[inv][r].now, promotions, userSubscriptions)],
        SelectSeq(notifications, IsMine)>>

\* C5: within a running invocation a step of one routine, failing or not,
\* changes neither the local state of another routine (it does not stop or
\* cancel it) nor anything that routine reads from the store.
C5_CrossRoutineIsolation ==
  [][\A inv \in Invocations : \A r1 \in Routines :
       (invocations[inv] = "running" /\ tasks'[inv][r1] # tasks[inv][r1])
         => \A r2 \in Routines \ {r1} :
              /\ tasks'[inv][r2] = tasks[inv][r2]
              /\ ViewOf(inv, r2)' = ViewOf(inv, r2)]_vars

\* the ending-soon promotion routine failed on its page fetch and the expired
\* routine of the same invocation committed both of its rows
C5_Witness ==
  \E inv \in Invocations :
    /\ invocations[inv] = "done"
    /\ tasks[inv][PES].error
    /\ ~tasks[inv][SX].error
    /\ tasks[inv][SX].expiredCount = 2
    /\ tasks[inv][SX].notificationCount = 2
    /\ Len(tasks[inv][SX].batches) = 1
    /\ tasks[inv][SX].batches[1].outcome = "committed"

\* C6: after createNotificationsForUsers with an empty list the result is
\* empty, no bulk insert was issued and the table is what it was; with a
\* non-empty list exactly one bulk insert added one row per listed user id.
C6_EmptyInputNoOp ==
  bulk.called =>
    IF Len(bulk.userIds) = 0
      THEN /\ bulk.returned = <<>>
           /\ bulk.inserts = 0
           /\ notifications = bulk.before
      ELSE /\ bulk.inserts = 1
           /\ Len(notifications) = Len(bulk.before) + Len(bulk.userIds)
           /\ SubSeq(notifications, 1, Len(bulk.before)) = bulk.before
           /\ Len(bulk.returned) = Len(bulk.userIds)
           /\ \A k \in 1..Len(bulk.userIds) :
                notifications[Len(bulk.before) + k].userId = bulk.userIds[k]

C6_Witness ==
  /\ bulk.called
  /\ Len(bulk.userIds) = 0
  /\ Len(notifications) > 0

\* the sub-batch k of the expired routine of invocation inv left nothing
NoEffect(inv, k) ==
  LET b == tasks[inv][SX].batches[k]
  IN  /\ \A id \in b.ids : userSubscriptions[id].status # EXPIRED
      /\ \A n \in WrittenBy(inv, SX) : notifications[n].by[3] # k

C8_EarlierSubBatchesStayCommitted ==
  \A inv \in Invocations :
    LET t == tasks[inv][SX]
    IN  \A k1, k2 \in 1..Len(t.batches) :
          (k1 < k2 /\ t.batches[k1].outcome = "committed"
                   /\ t.batches[k2].outcome = "rolledBack")
            => /\ \A id \in t.batches[k1].ids \ t.failed :
                    /\ userSubscriptions[id].status = EXPIRED
                    /\ \E n \in WrittenBy(inv, SX) :
                         /\ notifications[n].by[3] = k1
                         /\ notifications[n].userId = userSubscriptions[id].userId
               /\ \A id \in t.batches[k2].ids : userSubscriptions[id].status = ACTIVE
               /\ \A n \in WrittenBy(inv, SX) : notifications[n].by[3] # k2

C8_Witness ==
  \E inv \in Invocations :
    LET t == tasks[inv][SX]
    IN  /\ Len(t.batches) = 2
        /\ t.batches[1].outcome = "committed"
        /\ Cardinality(t.batches[1].ids) = BATCH_SIZE
        /\ t.batches[2].outcome = "rolledBack"
        /\ t.batches[2].ids # {}

\* C9 (as claimed): when the hourly scan that follows a scan with a rolled
\* back sub-batch has ended without a failure of its own, it has selected the
\* rows of that sub-batch again and they are EXPIRED.
C9_RetryAfterRollback ==
  \A i1, i2 \in Invocations :
    ( /\ invocations[i2] = "done"
      /\ tasks[i2][SX].now = tasks[i1][SX].now + OneHour
      /\ ~tasks[i2][SX].error
      /\ tasks[i2][SX].failed = {} )
    => \A k \in 1..Len(tasks[i1][SX].batches) :
         tasks[i1][SX].batches[k].outcome = "rolledBack"
           => \A id \in tasks[i1][SX].batches[k].ids :
                /\ \E m \in 1..Len(tasks[i2][SX].visited) : tasks[i2][SX].visited[m] = id
                /\ userSubscriptions[id].status = EXPIRED

\* C10 (as claimed): every row a committing transaction of the scanner sets
\* EXPIRED is ACTIVE when the write reaches it (so no row is written EXPIRED
\* twice, and no CANCELLED row becomes EXPIRED), whatever user requests and
\* overlapping invocations do between the page fetch and the update.
C10_ActiveOnlyTransition ==
  [][\A inv \in Invocations :
       (tasks[inv][SX].pc = "commit"
          /\ Len(tasks'[inv][SX].batches) > Len(tasks[inv][SX].batches)
          /\ tasks'[inv][SX].batches[Len(tasks'[inv][SX].batches)].outcome = "committed")
         => \A id \in tasks[inv][SX].tx.updated : userSubscriptions[id].status = ACTIVE]_vars

\* C11: a step of the scanner (any step that is not a step of a user request)
\* adds or removes no entity row, changes a promotion only by setting active
\* from true to false and a subscription only by setting status EXPIRED; and
\* every row a page fetch returns is active (promotions) or ACTIVE
\* (subscriptions) at the fetch, so a row the scanner has made inactive or
\* EXPIRED is not selected by a later scan.
C11_OneWayMutations ==
  [][sessions' = sessions =>
       /\ Len(promotions') = Len(promotions)
       /\ Len(userSubscriptions') = Len(userSubscriptions)
       /\ \A id \in 1..Len(promotions) :
            promotions'[id] # promotions[id]
              => /\ promotions[id].active
                 /\ promotions'[id] = [promotions[id] EXCEPT !.active = FALSE]
       /\ \A id \in 1..Len(userSubscriptions) :
            userSubscriptions'[id] # userSubscriptions[id]
              => userSubscriptions'[id] = [userSubscriptions[id] EXCEPT !.status = EXPIRED]
       /\ \A inv \in Invocations : \A r \in Routines :
            (tasks[inv][r].pc = "fetch" /\ tasks'[inv][r].pc # "fetch")
              => \A k \in 1..Len(tasks'[inv][r].page) :
                   LET id == tasks'[inv][r].page[k].id
                   IN  IF r \in PromotionRoutines
                         THEN promotions[id].active
                         ELSE userSubscriptions[id].status = ACTIVE]_vars

\* two scans in the same hour: the first notified and deactivated a promotion
\* that ended in the last hour, the second did not select it
C11_Witness ==
  /\ \A inv \in Invocations : invocations[inv] = "done"
  /\ tasks[1][PE].now = tasks[2][PE].now
  /\ \E id \in 1..Len(promotions) :
       /\ JustEnded(promotions[id].endsAt, tasks[2][PE].now)
       /\ ~promotions[id].active
       /\ \E k \in 1..Len(tasks[1][PE].visited) : tasks[1][PE].visited[k] = id
       /\ \A k \in 1..Len(tasks[2][PE].visited) : tasks[2][PE].visited[k] # id
       /\ WrittenFor(PE, id) \cap WrittenBy(1, PE) # {}

\* a failure happened inside routine r of invocation inv: a page fetch or a
\* transaction that threw, a row that threw, or a sub-batch that rolled back
HadFailure(inv, r) ==
  LET t == tasks[inv][r]
  IN  \/ t.error
      \/ t.failed # {}
      \/ \E k \in 1..Len(t.batches) : t.batches[k].outcome = "rolledBack"

\* C12 (as claimed): when a routine had a failure in one hourly scan and the
\* next hourly scan has ended without a failure, every row that qualified for
\* the failed scan and is still unprocessed (still active / ACTIVE, owner
\* resolved) has been picked up: a notification of the routine's type exists
\* for its subject key.
C12_LateNotLost ==
  \A i1, i2 \in Invocations : \A r \in Routines :
    ( /\ invocations[i1] = "done" /\ invocations[i2] = "done"
      /\ tasks[i2][r].now = tasks[i1][r].now + OneHour
      /\ HadFailure(i1, r)
      /\ ~HadFailure(i2, r) )
    => \A id \in 1..TableLen(r, promotions, userSubscriptions) :
         ( /\ Where(r, id, tasks[i1][r].now, promotions, userSubscriptions)
           /\ r \in PromotionRoutines => promotions[id].ownerId # 0 )
         => WrittenFor(r, SubjectKey(r, Select(r, id, promotions, userSubscriptions))) # {}

\* C13: an invocation of handleScheduledNotifications (triggerScheduledNotifications
\* only awaits it) is complete only when all four routines have settled, it is
\* never in a state other than idle, running or completed normally, and every
\* running invocation completes, whatever failures happened in the routines.
C13_InvocationCompletes ==
  /\ [](\A inv \in Invocations :
          /\ invocations[inv] \in {"idle", "running", "done"}
          /\ invocations[inv] = "done"
               => \A r \in Routines : tasks[inv][r].pc = "done")
  /\ \A inv \in Invocations :
       (invocations[inv] = "running") ~> (invocations[inv] = "done")

\* an invocation that completed after a page-level failure in one routine and
\* a full scan in another
C13_Witness ==
  \E inv \in Invocations :
    /\ invocations[inv] = "done"
    /\ \E r \in Routines : tasks[inv][r].error
    /\ \E r \in Routines : ~tasks[inv][r].error /\ tasks[inv][r].processedCount > 0

\* C14 (as claimed): a sub-batch of the expired routine in whose transaction
\* a row statement threw has nevertheless committed: every other row of the
\* sub-batch is EXPIRED and its user has a SUBSCRIPTION_EXPIRED notification,
\* and the failing row is still ACTIVE with no notification written for its
\* user by the sub-batch.
C14_PerRowIsolationInTransaction ==
  \A inv \in Invocations :
    LET t == tasks[inv][SX]
    IN  \A k \in 1..Len(t.batches) :
          LET b == t.batches[k]
          IN  b.threw
                => /\ b.outcome = "committed"
                   /\ \A id \in b.ids \ t.failed :
                        /\ userSubscriptions[id].status = EXPIRED
                        /\ WrittenFor(SX, userSubscriptions[id].userId) # {}
                   /\ \A id \in b.ids \cap t.failed :
                        /\ userSubscriptions[id].status = ACTIVE
                        /\ \A n \in WrittenBy(inv, SX) :
                             notifications[n].by[3] = k
                               => notifications[n].userId # userSubscriptions[id].userId

\* user userId has a SUBSCRIPTION_EXPIRED notification created at or after
\* hour `since`
HasRecentExpired(userId, since) ==
  \E n \in 1..Len(notifications) :
     /\ notifications[n].userId = userId
     /\ notifications[n].type = SUBSCRIPTION_EXPIRED
     /\ notifications[n].createdAt >= since

\* C15: in the expired routine without store failures, (a) a row's dedup
\* read comes after its update and queues a notification exactly when the
\* user has no SUBSCRIPTION_EXPIRED notification of the last hour, the update
\* being made either way; (b) the commit sets every row of the sub-batch
\* EXPIRED and appends, in the same step, exactly one notification per queued
\* user; (c) no other step of the routine sets a row EXPIRED or writes a
\* SUBSCRIPTION_EXPIRED notification, so no committed state shows a row of the
\* sub-batch EXPIRED while a notification queued for it is missing.
C15_UpdateIndependentOfDedup ==
  [][\A inv \in Invocations :
       LET t == tasks[inv][SX]
           t2 == tasks'[inv][SX]
           n0 == Len(notifications)
       IN  /\ (t.pc = "check" /\ t2 # t)
                => /\ Row(t).id \in t.tx.updated
                   /\ t2.tx.updated = t.tx.updated
                   /\ t2.queue = IF HasRecentExpired(Row(t).userId, t.now - OneHour)
                                   THEN t.queue
                                   ELSE Append(t.queue, Row(t).userId)
           /\ (t.pc = "commit" /\ t2 # t)
                => /\ \A id \in BatchIds(t) : userSubscriptions'[id].status = EXPIRED
                   /\ Len(notifications') = n0 + Len(t.queue)
                   /\ \A k \in 1..Len(t.queue) :
                        /\ notifications'[n0 + k].userId = t.queue[k]
                        /\ notifications'[n0 + k].type = SUBSCRIPTION_EXPIRED
           /\ (t.pc # "commit" /\ t2 # t)
                => /\ \A id \in 1..Len(userSubscriptions) :
                        userSubscriptions'[id].status = EXPIRED
                          => userSubscriptions[id].status = EXPIRED
                   /\ \A n \in 1..Len(notifications') :
                        notifications'[n].type = SUBSCRIPTION_EXPIRED => n <= n0]_vars

\* a committed sub-batch whose row is EXPIRED although the dedup read found a
\* notification of the last hour: the sub-batch wrote no notification
C15_Witness ==
  \E inv \in Invocations :
    LET t == tasks[inv][SX]
    IN  \E k \in 1..Len(t.batches) :
          /\ t.batches[k].outcome = "committed"
          /\ \A n \in WrittenBy(inv, SX) : notifications[n].by[3] # k
          /\ \E id \in t.batches[k].ids :
               /\ userSubscriptions[id].status = EXPIRED
               /\ HasRecentExpired(userSubscriptions[id].userId, t.now - OneHour)

C17_RacyDedup ==
  [][\A inv \in Invocations : \A r \in PromotionRoutines :
       LET t == tasks[inv][r]
       IN  (t.pc = "notify" /\ tasks'[inv][r] # t)
             => notifications' =
                  Append(notifications,
                         Notification(promotions[Row(t).id].ownerId, TypeOf(r),
                                      Row(t).id, clock, Writer(inv, r, t)))]_vars

\* two overlapping invocations of the same hour have both inserted a
\* PROMOTION_ENDING_SOON notification for the same promotion
C17_Witness ==
  \E n1, n2 \in 1..Len(notifications) :
    /\ n1 # n2
    /\ notifications[n1].type = PROMOTION_ENDING_SOON
    /\ notifications[n2].type = PROMOTION_ENDING_SOON
    /\ notifications[n1].promotionId = notifications[n2].promotionId
    /\ notifications[n1].by # <<>> /\ notifications[n2].by # <<>>
    /\ notifications[n1].by[1] # notifications[n2].by[1]
    /\ tasks[1][PES].now = tasks[2][PES].now

\* C18 (as claimed): overlapping subscription scans leave at most one
\* notification per (userId, type): no two notifications of the type of a
\* subscription routine for one user are written by two different invocations
\* whose `now` lie inside one dedup window.
C18_DuplicateSkipSafetyNet ==
  \A r \in SubscriptionRoutines :
    \A n1, n2 \in 1..Len(notifications) :
      ( /\ notifications[n1].type = TypeOf(r)
        /\ notifications[n2].type = TypeOf(r)
        /\ notifications[n1].userId = notifications[n2].userId
        /\ notifications[n1].by # <<>> /\ notifications[n2].by # <<>>
        /\ Abs(tasks[notifications[n1].by[1]][r].now
               - tasks[notifications[n2].by[1]][r].now) <= DedupHours(r) )
      => notifications[n1].by[1] = notifications[n2].by[1]

\* the step of routine r of invocation inv in which a page fetch fails: the
\* routine is over for this invocation with its promise settled as `settled`,
\* no further page is fetched or counted, nothing already written is undone,
\* and the other three routines are as they were
PageErrorStep(inv, r, settled) ==
  LET t == tasks[inv][r]
      t2 == tasks'[inv][r]
  IN  (t.pc = "fetch" /\ t2.error)
        => /\ t2.pc = "done"
           /\ PromiseOf(t2) = settled
           /\ t2.fetched = t.fetched
           /\ t2.visited = t.visited
           /\ t2.processedCount = t.processedCount
           /\ UNCHANGED <<promotions, userSubscriptions, notifications>>
           /\ \A r2 \in Routines \ {r} : tasks'[inv][r2] = tasks[inv][r2]

\* a routine that has ended takes no further step, and a routine that starts
\* has no cursor
EndedStaysEnded(inv, r) ==
  /\ tasks[inv][r].pc = "done" => tasks'[inv][r] = tasks[inv][r]
  /\ (tasks[inv][r].pc = "idle" /\ tasks'[inv][r].pc # "idle")
       => (tasks'[inv][r].pc = "fetch" /\ tasks'[inv][r].cursor = 0)

\* C19 (as claimed): a failing page fetch propagates out of the scan routine
\* (its promise rejects, for the fan-out to catch); the remaining pages are
\* not processed, the effects so far stay, the next invocation starts from
\* the first page, the other routines are unaffected.
C19_PageErrorPropagates ==
  [][\A inv \in Invocations : \A r \in Routines :
       PageErrorStep(inv, r, "rejected") /\ EndedStaysEnded(inv, r)]_vars

\* C19 (amended): a failing page fetch is caught by the routine's own catch,
\* the routine returns normally (its promise is fulfilled); the remaining
\* pages are not processed, the effects so far stay, the next invocation
\* starts from the first page, the other routines are unaffected.
C19_PageErrorEndsRoutine ==
  [][\A inv \in Invocations : \A r \in Routines :
       PageErrorStep(inv, r, "fulfilled") /\ EndedStaysEnded(inv, r)]_vars

\* the expired routine committed its first page of 50 rows and failed on the
\* fetch of the second: row 1 is EXPIRED, the last row still ACTIVE, and the
\* next invocation has started without a cursor
C19_Witness ==
  /\ Len(userSubscriptions) = BATCH_SIZE + 2
  /\ invocations[1] = "done"
  /\ tasks[1][SX].error
  /\ tasks[1][SX].page = <<>>
  /\ tasks[1][SX].fetched = <<BATCH_SIZE>>
  /\ userSubscriptions[1].status = EXPIRED
  /\ userSubscriptions[BATCH_SIZE + 2].status = ACTIVE
  /\ invocations[2] = "running"
  /\ tasks[2][SX].cursor = 0
  /\ tasks[2][SX].pc = "fetch"

\* the row loop has entered rows in strictly ascending id order
Ascending(seq) == \A a, b \in 1..Len(seq) : a < b => seq[a] < seq[b]

\* C20: in every routine the cursor is unset until the first page has been
\* processed and changes only at the end of a page's row loop, where it
\* becomes the id of the last row of the page, larger than before, whether or
\* not rows of the page failed; rows enter the row loop in strictly ascending
\* id order, and a routine that ends without a page-level error has entered
\* every row of every fetched page, the rows after a failing row included.
C20_CursorDiscipline ==
  /\ [](\A inv \in Invocations : \A r \in Routines :
          LET t == tasks[inv][r]
          IN  /\ Len(t.fetched) = 0 => t.cursor = 0
              /\ Ascending(t.visited)
              /\ (t.pc = "done" /\ ~t.error) => Len(t.visited) = t.processedCount)
  /\ [][\A inv \in Invocations : \A r \in Routines :
          LET t == tasks[inv][r]
              t2 == tasks'[inv][r]
          IN  /\ t2.cursor # t.cursor
                   => /\ Len(t.page) > 0
                      /\ t2.cursor = t.page[Len(t.page)].id
                      /\ t2.cursor > t.cursor
                      /\ t2.processedCount = t.processedCount + Len(t.page)
              /\ t2.processedCount # t.processedCount
                   => t2.cursor = t.page[Len(t.page)].id]_vars

\* the last row of a 50-row page failed; the cursor is its id all the same,
\* and all 50 rows were entered
C20_Witness ==
  \E inv \in Invocations : \E r \in Routines :
    LET t == tasks[inv][r]
    IN  /\ t.pc = "done" /\ ~t.error
        /\ t.cursor = BATCH_SIZE
        /\ BATCH_SIZE \in t.failed
        /\ Len(t.visited) = BATCH_SIZE

\* C21: every routine that has started ends; when it has ended, every fetch
\* but the last returned a full page of BATCH_SIZE rows and the last returned
\* fewer (possibly none); over N matching rows that the scan does not change
\* (the two ending-soon routines) the number of fetches is N \div 50 + 1, the
\* last one empty when N is a multiple of 50.
C21_TerminationAndFetchCount ==
  /\ [](\A inv \in Invocations : \A r \in Routines :
          LET t == tasks[inv][r]
              n == Len(Matching(r, t.now))
              last == Len(t.fetched)
          IN  t.pc = "done"
                => /\ last >= 1
                   /\ \A k \in 1..(last - 1) : t.fetched[k] = BATCH_SIZE
                   /\ t.fetched[last] < BATCH_SIZE
                   /\ r \in {PES, SES}
                        => /\ last = (n \div BATCH_SIZE) + 1
                           /\ n % BATCH_SIZE = 0 => t.fetched[last] = 0)
  /\ \A inv \in Invocations : \A r \in Routines :
       (tasks[inv][r].pc = "fetch") ~> (tasks[inv][r].pc = "done")

\* 100 matching rows: two full pages and one empty page
C21_Witness ==
  \E r \in {PES, SES} :
    /\ tasks[1][r].pc = "done"
    /\ Len(Matching(r, tasks[1][r].now)) = 2 * BATCH_SIZE
    /\ tasks[1][r].fetched = <<BATCH_SIZE, BATCH_SIZE, 0>>

\* C22: a step of checkPromotionsEndingSoon or checkSubscriptionsEndingSoon,
\* a failing store call included, leaves every promotion row and every
\* subscription row as it was; the only thing it may write is notifications
\* of its own type, appended to the table.
C22_EndingSoonWritesOnlyNotifications ==
  [][\A inv \in Invocations : \A r \in {PES, SES} :
       (/\ invocations'[inv] = invocations[inv]
        /\ tasks'[inv][r] # tasks[inv][r])
         => /\ promotions' = promotions
            /\ userSubscriptions' = userSubscriptions
            /\ Len(notifications') >= Len(notifications)
            /\ SubSeq(notifications', 1, Len(notifications)) = notifications
            /\ \A k \in (Len(notifications) + 1)..Len(notifications') :
                 notifications'[k].type = TypeOf(r)]_vars

\* an ending-soon routine has ended after a failure of one of its rows and
\* has written notifications for other rows; every promotion is still active
C22_Witness ==
  \E inv \in Invocations :
    /\ tasks[inv][PES].pc = "done"
    /\ tasks[inv][PES].failed # {}
    /\ WrittenBy(inv, PES) # {}
    /\ Len(promotions) = BATCH_SIZE
    /\ \A k \in 1..Len(promotions) : promotions[k].active

SumOf(seq) ==
  LET RECURSIVE Sum(_)
      Sum(k) == IF k = 0 THEN 0 ELSE seq[k] + Sum(k - 1)
  IN  Sum(Len(seq))

\* C23: a promotion whose product, store or owner does not resolve is passed
\* over without a trace by both promotion routines: no notification carries
\* its id, the routine ends without an error and without a failed row, the
\* notified count is the number of notifications the routine wrote while the
\* processed count covers every row of every fetched page, the rows after it
\* are handled (each one whose owner resolves has its notification and, in
\* the ended routine, is inactive), and no step changes the promotion, so the
\* ended routine leaves it active.
C23_DanglingOwnerSkipped ==
  /\ [](\A inv \in Invocations : \A r \in PromotionRoutines :
          LET t == tasks[inv][r]
          IN  /\ \A k \in 1..Len(notifications) :
                   notifications[k].promotionId # 0
                     => promotions[notifications[k].promotionId].ownerId # 0
              /\ t.pc = "done"
                   => /\ ~t.error
                      /\ t.failed = {}
                      /\ t.notificationCount = Cardinality(WrittenBy(inv, r))
                      /\ t.processedCount = SumOf(t.fetched)
                      /\ t.processedCount = Len(t.visited)
                      /\ \A a \in 1..Len(t.visited) :
                           LET id == t.visited[a]
                           IN  IF promotions[id].ownerId = 0
                                 THEN r = PE => promotions[id].active
                                 ELSE /\ \E k \in 1..Len(notifications) :
                                           /\ notifications[k].promotionId = id
                                           /\ notifications[k].type = TypeOf(r)
                                      /\ r = PE => ~promotions[id].active)
  /\ [][\A id \in 1..Len(promotions) :
          promotions[id].ownerId = 0 => promotions'[id] = promotions[id]]_vars

\* the ended routine has passed over row 1, whose owner does not resolve, and
\* has notified for and deactivated row 2
C23_Witness ==
  \E inv \in Invocations :
    LET t == tasks[inv][PE]
    IN  /\ t.pc = "done"
        /\ t.visited = <<1, 2>>
        /\ promotions[1].ownerId = 0
        /\ promotions[1].active
        /\ ~promotions[2].active
        /\ t.processedCount = 2
        /\ t.notificationCount = 1
        /\ Cardinality(WrittenBy(inv, PE)) = 1

\* the look-back the claim names for each routine, in hours
ClaimedWindow(r) ==
  CASE r = PES -> 24
    [] r = SES -> 48
    [] r = PE -> 1
    [] r = SX -> 1

\* an earlier notification (not written by this invocation) of row 1's
\* subject, of routine r's type, created at or after now - window
RecentEarlier(r, now) ==
  \E k \in 1..Len(notifications) :
     /\ notifications[k].by = <<>>
     /\ IF r \in PromotionRoutines
          THEN notifications[k].promotionId = 1
          ELSE notifications[k].userId = 1
     /\ notifications[k].type = TypeOf(r)
     /\ notifications[k].createdAt >= now - ClaimedWindow(r)

\* the routine has taken row 1 as not yet notified: it is about to notify,
\* has queued the user or has notified
TakenAsNew(inv, r) ==
  LET t == tasks[inv][r]
  IN  \/ t.pc \in {"notify", "deactivate", "insert"}
      \/ Len(t.queue) > 0
      \/ t.notificationCount > 0
      \/ WrittenBy(inv, r) # {}

\* the dedup read of row 1 has been answered
DedupAnswered(inv, r) ==
  LET t == tasks[inv][r]
  IN  /\ Len(t.fetched) > 0
      /\ t.fetched[1] = 1
      /\ t.pc \in {"notify", "deactivate", "insert", "commit", "done"}

\* C24: the dedup read of a row answers 'already notified' exactly when the
\* table holds a notification with the row's subject key (promotionId for a
\* promotion, userId for a subscription), the routine's type and createdAt
\* not before now - window, the window being 24 hours for promotions ending
\* soon, 48 hours for subscriptions ending soon and 1 hour for ended
\* promotions and expired subscriptions; a notification that is older, of
\* another type or of another subject does not suppress.
C24_DedupGateExact ==
  \A r \in Routines :
    DedupAnswered(1, r) => (TakenAsNew(1, r) <=> ~RecentEarlier(r, tasks[1][r].now))

\* the ended-promotion routine has notified although the table held a
\* PROMOTION_ENDED notification of the promotion that was two hours old and a
\* fresh one of the other promotion
C24_Witness ==
  /\ tasks[1][PE].pc = "done"
  /\ WrittenBy(1, PE) # {}
  /\ \E k \in 1..Len(notifications) :
       /\ notifications[k].by = <<>>
       /\ notifications[k].promotionId = 1
       /\ notifications[k].type = PROMOTION_ENDED
       /\ notifications[k].createdAt = ProbeHour - 2
  /\ \E k \in 1..Len(notifications) :
       /\ notifications[k].by = <<>>
       /\ notifications[k].promotionId = 2
       /\ notifications[k].type = PROMOTION_ENDED
       /\ notifications[k].createdAt = ProbeHour

\* the candidate predicate as the claim states it, on row id of r's table
ClaimedCandidate(r, id, now) ==
  LET row == IF r \in PromotionRoutines THEN promotions[id] ELSE userSubscriptions[id]
      live == IF r \in PromotionRoutines THEN row.active ELSE row.status = ACTIVE
      e == row.endsAt
  IN  /\ live
      /\ e # NoDate
      /\ CASE r = PES -> now <= e[1] /\ e[1] <= now + 24
           [] r = SES -> now <= e[1] /\ e[1] <= now + 48
           [] r = PE -> now - 1 <= e[1] /\ e[1] < now
           [] r = SX -> now - 1 <= e[1] /\ e[1] < now

\* C25: the first page a routine reads holds exactly the rows of its table
\* that are active (ACTIVE) and whose endsAt lies in [now, now + 24 h]
\* (promotions ending soon), [now, now + 48 h] (subscriptions ending soon) or
\* [now - 1 h, now) (ended promotions, expired subscriptions); a step of a
\* scan changes a promotion or subscription row, or inserts a notification
\* for it, only if the row is such a candidate of the routine that writes,
\* so rows without end date, inactive promotions and CANCELLED, EXPIRED or
\* PENDING subscriptions are never selected, notified or changed.
C25_CandidatePredicate ==
  /\ [](\A r \in Routines :
          LET t == tasks[1][r]
          IN  (Len(t.fetched) = 1 /\ t.visited = <<>> /\ t.notificationCount = 0)
                => {t.page[k].id : k \in 1..Len(t.page)}
                     = {id \in 1..TableLen(r, promotions, userSubscriptions) :
                          ClaimedCandidate(r, id, t.now)})
  /\ [][/\ \A id \in 1..Len(promotions) :
             promotions'[id] # promotions[id]
               => ClaimedCandidate(PE, id, tasks[1][PE].now)
        /\ \A id \in 1..Len(userSubscriptions) :
             userSubscriptions'[id] # userSubscriptions[id]
               => ClaimedCandidate(SX, id, tasks[1][SX].now)
        /\ \A k \in (Len(notifications) + 1)..Len(notifications') :
             LET n == notifications'[k]
                 r == n.by[2]
             IN  /\ n.type = TypeOf(r)
                 /\ IF r \in PromotionRoutines
                      THEN ClaimedCandidate(r, n.promotionId, tasks[1][r].now)
                      ELSE ClaimedCandidate(r, n.userId, tasks[1][r].now)]_vars

\* the ending-soon routine has notified for the promotion that ends exactly
\* 24 hours after now and has passed over the one that ends an hour later
C25_Witness ==
  /\ tasks[1][PES].pc = "done"
  /\ Len(promotions) = 2
  /\ promotions[1].active /\ promotions[1].endsAt = At(ProbeHour + 24)
  /\ promotions[2].active /\ promotions[2].endsAt = At(ProbeHour + 25)
  /\ tasks[1][PES].visited = <<1>>
  /\ Len(notifications) = 1
  /\ notifications[1].promotionId = 1

\* the set of the elements of a sequence
Range(seq) == {seq[k] : k \in 1..Len(seq)}

\* promotion id carries a PROMOTION_ENDED notification, is still active and no
\* routine is between the notification and the deactivation of that row
NotifiedNotDeactivated(id) ==
  /\ promotions[id].active
  /\ \E k \in 1..Len(notifications) :
       /\ notifications[k].promotionId = id
       /\ notifications[k].type = PROMOTION_ENDED
  /\ \A inv \in Invocations :
       ~(tasks[inv][PE].pc = "deactivate" /\ Row(tasks[inv][PE]).id = id)

\* C26: a promotion whose PROMOTION_ENDED notification was written while its
\* deactivation did not happen is never changed again: a later scan in the
\* same hour reads it, finds the notification and writes nothing; a scan an
\* hour or more later does not read it (its endsAt is before now - 1 h); it
\* stays active and is not notified a second time.
C26_NotRepaired ==
  /\ [][\A id \in 1..Len(promotions) :
          NotifiedNotDeactivated(id)
            => /\ promotions'[id] = promotions[id]
               /\ NotifiedNotDeactivated(id)']_vars
  /\ [](\A id \in 1..Len(promotions) :
          (/\ NotifiedNotDeactivated(id)
           /\ id \in tasks[1][PE].failed
           /\ WrittenFor(PE, id) \cap WrittenBy(1, PE) # {}
           /\ tasks[2][PE].pc = "done"
           /\ ~tasks[2][PE].error)
            => /\ Cardinality(WrittenFor(PE, id)) = 1
               /\ IF tasks[2][PE].now = tasks[1][PE].now
                    THEN id \in Range(tasks[2][PE].visited)
                    ELSE id \notin Range(tasks[2][PE].visited))

\* the deactivation of promotion 2 failed after its notification; a second
\* scan in the same hour has read the promotion and has left it active
C26_Witness ==
  /\ NotifiedNotDeactivated(2)
  /\ 2 \in tasks[1][PE].failed
  /\ WrittenFor(PE, 2) \cap WrittenBy(1, PE) # {}
  /\ invocations[2] = "done"
  /\ tasks[2][PE].now = tasks[1][PE].now
  /\ tasks[2][PE].visited = <<2>>
  /\ Len(notifications) >= 1

\* C27 (as claimed): when checkSubscriptionsExpired (checkPromotionsEnded) has
\* ended without error over a table of more than 50 rows that all matched
\* when the scan started, every row is EXPIRED (notified and inactive).
C27_MutatingScanComplete ==
  /\ \A inv \in Invocations :
       (tasks[inv][SX].pc = "done" /\ ~tasks[inv][SX].error
        /\ Len(userSubscriptions) > BATCH_SIZE
        /\ \A id \in 1..Len(userSubscriptions) :
             userSubscriptions[id].endsAt = At(tasks[inv][SX].now - 1))
         => \A id \in 1..Len(userSubscriptions) :
              userSubscriptions[id].status = EXPIRED
  /\ \A inv \in Invocations :
       (tasks[inv][PE].pc = "done" /\ ~tasks[inv][PE].error
        /\ Len(promotions) > BATCH_SIZE
        /\ \A id \in 1..Len(promotions) :
             promotions[id].endsAt = At(tasks[inv][PE].now - 1))
         => \A id \in 1..Len(promotions) :
              /\ ~promotions[id].active
              /\ WrittenFor(PE, id) # {}

\* C28 (as claimed): one run of checkSubscriptionsEndingSoon or of
\* checkSubscriptionsExpired writes at most one notification of its type per
\* user, also when a page holds two ACTIVE subscriptions of one user.
C28_OnePerUserPerRun ==
  \A inv \in Invocations : \A r \in SubscriptionRoutines : \A u \in Users :
    Cardinality({k \in WrittenBy(inv, r) : notifications[k].userId = u}) <= 1

\* the rows of page p of a table of n rows that all match
PageRows(p, n) ==
  {id \in 1..n : (p - 1) * BATCH_SIZE < id /\ id <= p * BATCH_SIZE}

\* the users invocation inv of checkSubscriptionsEndingSoon has notified
NotifiedBy(inv) == {notifications[k].userId : k \in WrittenBy(inv, SES)}

\* C29: in checkSubscriptionsEndingSoon the step in which the bulk insert
\* throws writes nothing, leaves the notified count as it was, counts the
\* page as processed, advances the cursor to the page's last row and goes on
\* with the next fetch (or ends the routine after a short page) without the
\* routine's error; a routine that has ended without a failing fetch has
\* read every page and entered every row, and on every page it has notified
\* either every user whose dedup read did not throw or, when that page's
\* insert threw, none; in checkSubscriptionsExpired the step in which the
\* bulk insert throws ends the routine with its error.
C29_BulkInsertFailureContained ==
  /\ [][\A inv \in Invocations :
          LET t == tasks[inv][SES]
              u == tasks'[inv][SES]
          IN  (t.pc = "insert" /\ u # t /\ faults' = faults + 1)
                => /\ notifications' = notifications
                   /\ u.notificationCount = t.notificationCount
                   /\ u.processedCount = t.processedCount + Len(t.page)
                   /\ u.cursor = t.page[Len(t.page)].id
                   /\ ~u.error
                   /\ u.pc = IF Len(t.page) = BATCH_SIZE THEN "fetch" ELSE "done"]_vars
  /\ [][\A inv \in Invocations :
          LET t == tasks[inv][SX]
              u == tasks'[inv][SX]
          IN  (t.pc = "commit" /\ ~t.tx.aborted /\ u # t /\ faults' = faults + 1)
                => u.error /\ u.pc = "done" /\ notifications' = notifications]_vars
  /\ [](LET t == tasks[1][SES]
            n == Len(userSubscriptions)
        IN  (/\ n = BATCH_SIZE + 2
             /\ \A id \in 1..n : ClaimedCandidate(SES, id, t.now)
             /\ t.pc = "done"
             /\ ~t.error)
              => /\ t.fetched = <<BATCH_SIZE, 2>>
                 /\ t.visited = [k \in 1..n |-> k]
                 /\ t.processedCount = n
                 /\ t.notificationCount = Cardinality(WrittenBy(1, SES))
                 /\ \A p \in 1..2 :
                      \/ NotifiedBy(1) \cap PageRows(p, n) = PageRows(p, n) \ t.failed
                      \/ /\ NotifiedBy(1) \cap PageRows(p, n) = {}
                         /\ faults >= 1
                 /\ Cardinality({p \in 1..2 : NotifiedBy(1) \cap PageRows(p, n) = {}})
                      <= MaxFaults)

\* the bulk insert of the first page threw: its 50 users are not notified,
\* the second page was read and its two users are notified, the routine has
\* ended without its error
C29_Witness ==
  LET t == tasks[1][SES]
  IN  /\ Len(userSubscriptions) = BATCH_SIZE + 2
      /\ t.pc = "done"
      /\ ~t.error
      /\ t.failed = {}
      /\ t.fetched = <<BATCH_SIZE, 2>>
      /\ t.cursor = BATCH_SIZE + 2
      /\ NotifiedBy(1) = {BATCH_SIZE + 1, BATCH_SIZE + 2}
      /\ t.notificationCount = 2

\* C30 (as claimed): within one invocation no promotion is read by both
\* promotion routines and no subscription by both subscription routines, and
\* no promotion (user) receives both an ending-soon and an ended (expired)
\* notification from the same invocation.
C30_DisjointWork ==
  \A inv \in Invocations :
    /\ Range(tasks[inv][PES].visited) \cap Range(tasks[inv][PE].visited) = {}
    /\ Range(tasks[inv][SES].visited) \cap Range(tasks[inv][SX].visited) = {}
    /\ \A a \in WrittenBy(inv, PES), b \in WrittenBy(inv, PE) :
         notifications[a].promotionId # notifications[b].promotionId
    /\ \A a \in WrittenBy(inv, SES), b \in WrittenBy(inv, SX) :
         notifications[a].userId # notifications[b].userId

====
